---- MODULE Spec2Model ----
(***************************************************************************)
(* A model of the security monitor: the orchestrator SecurityMonitor.run,  *)
(* the five checks (DependencyAudit, EnvironmentVariables, SecurityHeaders,*)
(* ApiSecurity, DatabaseSecurity), the ReportGenerator and the CLI entry.  *)
(*                                                                         *)
(* Strings are sequences of symbols.  Environment values are sequences of  *)
(* characters; file contents and paths are sequences of tokens.  Objects   *)
(* with optional keys are functions whose DOMAIN holds the keys present.   *)
(***************************************************************************)
EXTENDS Integers, Sequences, FiniteSets, TLC

VARIABLES
    configSource,\* what the file at the configuration path holds
    config,      \* the loaded configuration (never assigned after construction)
    processEnv,  \* process.env: variable name -> value, unset names absent
    cwd,         \* process.cwd(), an absolute path
    files,       \* the filesystem: absolute path -> node (file or directory)
    auditTool,   \* what execSync(<packageManager> <command>) does
    results,     \* the shared accumulator (this.results)
    pc,          \* where SecurityMonitor.run stands
    invoked,     \* the calls made so far, in order: each check's run() and the
                 \* report generator's generateRecommendations, generateReport
    thrown,      \* the checks whose run() raised an error to its caller
    report,      \* the report file written by generateReport
    exitCode,    \* the process exit code, -1 while the process runs
    runs,        \* number of direct invocations of a check's run()
    stderr,      \* the lines console.error has written
    loadError    \* the message of the error ConfigLoader.load raised to its
                 \* caller, <<>> when it raised none

vars == <<configSource, config, processEnv, cwd, files, auditTool, results, pc,
          invoked, thrown, report, exitCode, runs, stderr, loadError>>

loading == <<stderr, loadError>>

environment == <<configSource, config, processEnv, cwd, files, auditTool>>

----------------------------------------------------------------------------
(* Bounds of the model.                                                    *)

MaxValueLen == 2    \* longest environment value
MaxRuns == 2        \* direct invocations of one check's run()
MaxDepth == 2       \* nesting depth of the API directory tree
MaxSevere == 1      \* critical, and high, vulnerabilities the audit reports

----------------------------------------------------------------------------
(* JavaScript values.                                                      *)

Has(obj, key) == key \in DOMAIN obj

EmptyObject == [k \in {} |-> TRUE]

\* obj[key] = value on a JavaScript object
Put(obj, key, value) == (key :> value) @@ obj

\* String.prototype.startsWith
Includes_StartsWith(s, p) ==
    Len(p) <= Len(s) /\ SubSeq(s, 1, Len(p)) = p

\* String.prototype.includes
Includes(s, p) ==
    \E i \in 0..(Len(s) - Len(p)) : SubSeq(s, i + 1, i + Len(p)) = p

\* Array.prototype.some(x => s.includes(x))
IncludesSome(s, ps) == \E j \in 1..Len(ps) : Includes(s, ps[j])

\* a membership test that reads the entry '*.ts' as a glob
ArrayIncludes_Glob(arr, x) ==
    \E j \in 1..Len(arr) : arr[j] = x \/ (arr[j] = "*.ts" /\ x = "route.ts")

\* Array.prototype.includes
ArrayIncludes(arr, x) == \E j \in 1..Len(arr) : arr[j] = x

Alphabet == {"k", "K", "x"}

LowerChar(c) == IF c = "K" THEN "k" ELSE c

\* String.prototype.toLowerCase
ToLowerCase(s) == [i \in 1..Len(s) |-> LowerChar(s[i])]

RECURSIVE StringsUpTo(_)
StringsUpTo(n) ==
    IF n = 0 THEN {<<>>}
    ELSE LET shorter == StringsUpTo(n - 1)
         IN  shorter \cup {Append(s, c) : s \in {t \in shorter : Len(t) = n - 1},
                                          c \in Alphabet}

CheckOrder == <<"dependencyAudit", "environmentVariables", "securityHeaders",
                "apiSecurity", "databaseSecurity">>

CheckNames == {CheckOrder[i] : i \in 1..Len(CheckOrder)}

\* this.config.checks[name]?.enabled
Enabled(cfg, name) ==
    /\ Has(cfg.checks, name)
    /\ Has(cfg.checks[name], "enabled")
    /\ cfg.checks[name].enabled

\* What a call of an async run() leaves: the accumulator as mutated up to the
\* return or the throw, and whether (and with which message) it threw.
Returned(res) == [results |-> res, threw |-> FALSE, message |-> ""]

Threw(res, msg) == [results |-> res, threw |-> TRUE, message |-> msg]

----------------------------------------------------------------------------
(* EnvironmentVariables.run                                                *)

DefaultMinLength == 10

DefaultInsecurePatterns ==
    << <<"p", "a", "s", "s", "w", "o", "r", "d">>,
       <<"s", "e", "c", "r", "e", "t">>,
       <<"k", "e", "y">> >>

EnvOrder == <<"DATABASE_URL", "API_KEY">>

EnvNames == {EnvOrder[i] : i \in 1..Len(EnvOrder)}

\* Object.entries(process.env): the names that are set, in enumeration order
EnvKeys(env) == SelectSeq(EnvOrder, LAMBDA k : Has(env, k))

\* process.env[varName] is truthy: set and not the empty string
Truthy(env, k) == Has(env, k) /\ env[k] # <<>>

\* envConfig.minLength || 10
MinLengthOf(envConfig) ==
    IF Has(envConfig, "minLength") /\ envConfig.minLength # 0
    THEN envConfig.minLength ELSE DefaultMinLength

\* envConfig.patterns?.insecure || ['password', 'secret', 'key']
InsecurePatternsOf(envConfig) ==
    IF Has(envConfig, "patterns") /\ Has(envConfig.patterns, "insecure")
    THEN envConfig.patterns.insecure ELSE DefaultInsecurePatterns

\* the test of the second loop: value && patterns.some(...) and the length gate
PatternFlagged(env, k, patterns, minLength) ==
    /\ Truthy(env, k)
    /\ IncludesSome(ToLowerCase(env[k]), patterns)
    /\ Len(env[k]) < minLength * 2

\* the length test written with <= for <
TooShort_Inclusive(env, k, minLength) ==
    Truthy(env, k) /\ Len(env[k]) <= minLength

\* the length test applied to every set variable, the empty string included
TooShort_AlsoWhenEmpty(env, k, minLength) ==
    Has(env, k) /\ Len(env[k]) < minLength

\* the second branch of the first loop
TooShort(env, k, minLength) == Truthy(env, k) /\ Len(env[k]) < minLength

EnvOutcome(missingVars, insecureVars, requiredVars, optionalVars) ==
    [status   |-> IF Len(missingVars) = 0 /\ Len(insecureVars) = 0
                  THEN "pass" ELSE "warn",
     missing  |-> missingVars,
     insecure |-> insecureVars,
     checked  |-> Len(requiredVars) + Len(optionalVars)]

\* the body of run() after the enabled test
EnvInspect(cfg, env, res) ==
    LET envConfig == cfg.checks["environmentVariables"]
        minLength == MinLengthOf(envConfig)
        insecurePatterns == InsecurePatternsOf(envConfig)
    IN  IF Has(envConfig, "required") /\ ~envConfig.required.isArray
        THEN Threw(res, "requiredVars.forEach is not a function")
        ELSE
        LET requiredVars == IF Has(envConfig, "required")
                            THEN envConfig.required.items ELSE <<>>
            optionalVars == IF Has(envConfig, "optional")
                            THEN envConfig.optional ELSE <<>>
            missingVars == SelectSeq(requiredVars, LAMBDA v : ~Truthy(env, v))
            shortVars == SelectSeq(requiredVars,
                                   LAMBDA v : TooShort(env, v, minLength))
            patternVars == SelectSeq(EnvKeys(env),
                LAMBDA k : PatternFlagged(env, k, insecurePatterns, minLength))
            insecureVars == shortVars \o patternVars
        IN  Returned([res EXCEPT !.checks =
                Put(@, "environmentVariables",
                    EnvOutcome(missingVars, insecureVars, requiredVars,
                               optionalVars))])

\* run() reporting the missing variables as a warning string as well
EnvironmentVariables_run_Warns(cfg, env, res) ==
    IF ~Enabled(cfg, "environmentVariables") THEN Returned(res)
    ELSE LET r == EnvInspect(cfg, env, res)
         IN  IF r.threw THEN r
             ELSE [r EXCEPT !.results.warnings =
                     Append(@, <<"Environment variables checked">>)]

EnvironmentVariables_run(cfg, env, res) ==
    IF ~Enabled(cfg, "environmentVariables") THEN Returned(res)
    ELSE EnvInspect(cfg, env, res)

----------------------------------------------------------------------------
(* DependencyAudit.run                                                     *)

Tiers == {"critical", "high", "moderate", "low"}

DefaultCriticalThreshold == 0
DefaultHighThreshold == 0
DefaultModerateThreshold == 5
DefaultLowThreshold == 10

\* thresholds.<tier> || <default>
ThresholdOr(thresholds, tier, default) ==
    IF Has(thresholds, tier) /\ thresholds[tier] # 0
    THEN thresholds[tier] ELSE default

\* this.results.vulnerabilities.filter(v => v.severity === tier).length
CountSeverity(vulns, tier) ==
    Cardinality({i \in 1..Len(vulns) : vulns[i].severity = tier})

\* the record pushed for one [pkg, vuln] entry of auditData.vulnerabilities
VulnerabilityRecord(entry) ==
    [package |-> entry.package, severity |-> entry.severity]

\* index of the first entry whose conversion throws (vuln is null), or
\* Len(entries) + 1 when every entry converts
FirstNull(entries) ==
    IF \E i \in 1..Len(entries) : entries[i].isNull
    THEN CHOOSE i \in 1..Len(entries) :
            /\ entries[i].isNull
            /\ \A j \in 1..(i - 1) : ~entries[j].isNull
    ELSE Len(entries) + 1

ExceedsThresholds(vulns, thresholds) ==
    \/ CountSeverity(vulns, "critical")
         > ThresholdOr(thresholds, "critical", DefaultCriticalThreshold)
    \/ CountSeverity(vulns, "high")
         > ThresholdOr(thresholds, "high", DefaultHighThreshold)
    \/ CountSeverity(vulns, "moderate")
         > ThresholdOr(thresholds, "moderate", DefaultModerateThreshold)
    \/ CountSeverity(vulns, "low")
         > ThresholdOr(thresholds, "low", DefaultLowThreshold)

AuditOutcome(vulns, thresholds) ==
    [status          |-> IF ExceedsThresholds(vulns, thresholds)
                         THEN "fail" ELSE "pass",
     vulnerabilities |-> Len(vulns),
     critical        |-> CountSeverity(vulns, "critical"),
     high            |-> CountSeverity(vulns, "high"),
     moderate        |-> CountSeverity(vulns, "moderate"),
     low             |-> CountSeverity(vulns, "low"),
     thresholds      |-> thresholds]

ErrorOutcome(msg) == [status |-> "error", error |-> msg]

DependencyAudit_run(cfg, tool, res) ==
    IF ~Enabled(cfg, "dependencyAudit") THEN Returned(res)
    ELSE IF tool.kind = "execFails"
    THEN Returned([res EXCEPT !.checks =
            Put(@, "dependencyAudit", ErrorOutcome("Command failed"))])
    ELSE IF tool.kind = "notJSON"
    THEN Returned([res EXCEPT !.checks =
            Put(@, "dependencyAudit", ErrorOutcome("Unexpected token"))])
    ELSE
    LET entries == IF tool.hasVulnerabilities THEN tool.entries ELSE <<>>
        stop == FirstNull(entries)
        pushed == [i \in 1..(stop - 1) |-> VulnerabilityRecord(entries[i])]
        vulns == res.vulnerabilities \o pushed
        auditConfig == cfg.checks["dependencyAudit"]
        thresholds == IF Has(auditConfig, "severityThresholds")
                      THEN auditConfig.severityThresholds ELSE EmptyObject
    IN  IF stop <= Len(entries)
        THEN Returned([res EXCEPT
                !.vulnerabilities = vulns,
                !.checks = Put(@, "dependencyAudit",
                    ErrorOutcome("Cannot read properties of null"))])
        ELSE Returned([res EXCEPT
                !.vulnerabilities = vulns,
                !.checks = Put(@, "dependencyAudit",
                               AuditOutcome(vulns, thresholds))])

----------------------------------------------------------------------------
(* The filesystem: path.join, fs.existsSync, fs.readFileSync, fs.statSync, *)
(* fs.readdirSync.  A path is a sequence of segments and "/" separators.   *)

RECURSIVE CollapseSeparators(_)
CollapseSeparators(p) ==
    IF Len(p) < 2 THEN p
    ELSE IF p[1] = "/" /\ p[2] = "/" THEN CollapseSeparators(Tail(p))
    ELSE <<p[1]>> \o CollapseSeparators(Tail(p))

\* path.join(a, b) for paths without "." and ".." segments
PathJoin(a, b) == CollapseSeparators(a \o <<"/">> \o b)

ExistsSync(fs, p) == Has(fs, p)

IsDirectory(fs, p) == fs[p].isDirectory

----------------------------------------------------------------------------
(* SecurityHeaders.run                                                     *)

DefaultHeadersConfigFile == <<"next.config.mjs">>

ConfigFileSentinel == <<"config_file">>

\* the part of run() that reads the file and looks for the headers
\* the inspection passing only when no earlier check has left a record that
\* is not 'pass'
HeadersInspect_ReadsOtherRecords(headersConfig, configFile, configPath, fs, res) ==
    IF IsDirectory(fs, configPath)
    THEN Threw(res, "EISDIR: illegal operation on a directory, read")
    ELSE
    LET configContent == fs[configPath].content
        requiredHeaders == IF Has(headersConfig, "required")
                           THEN headersConfig.required ELSE <<>>
        missingHeaders == SelectSeq(requiredHeaders,
                            LAMBDA header : ~Includes(configContent, header))
        othersPass == \A name \in DOMAIN res.checks :
                         res.checks[name].status = "pass"
    IN  Returned([res EXCEPT !.checks =
            Put(@, "securityHeaders",
                [status     |-> IF Len(missingHeaders) = 0 /\ othersPass
                                THEN "pass" ELSE "warn",
                 missing    |-> missingHeaders,
                 configFile |-> configFile])])

HeadersInspect(headersConfig, configFile, configPath, fs, res) ==
    IF IsDirectory(fs, configPath)
    THEN Threw(res, "EISDIR: illegal operation on a directory, read")
    ELSE
    LET configContent == fs[configPath].content
        requiredHeaders == IF Has(headersConfig, "required")
                           THEN headersConfig.required ELSE <<>>
        missingHeaders == SelectSeq(requiredHeaders,
                            LAMBDA header : ~Includes(configContent, header))
    IN  Returned([res EXCEPT !.checks =
            Put(@, "securityHeaders",
                [status     |-> IF Len(missingHeaders) = 0
                                THEN "pass" ELSE "warn",
                 missing    |-> missingHeaders,
                 configFile |-> configFile])])

HeadersConfigFile(cfg) ==
    IF Has(cfg.checks["securityHeaders"], "configFile")
    THEN cfg.checks["securityHeaders"].configFile
    ELSE DefaultHeadersConfigFile

\* run() without the existsSync test: readFileSync raises ENOENT
SecurityHeaders_run_NoExistsTest(cfg, wd, fs, res) ==
    IF ~Enabled(cfg, "securityHeaders") THEN Returned(res)
    ELSE IF ~ExistsSync(fs, PathJoin(wd, HeadersConfigFile(cfg)))
    THEN Threw(res, "ENOENT: no such file or directory, open")
    ELSE HeadersInspect(cfg.checks["securityHeaders"], HeadersConfigFile(cfg),
                        PathJoin(wd, HeadersConfigFile(cfg)), fs, res)

SecurityHeaders_run(cfg, wd, fs, res) ==
    IF ~Enabled(cfg, "securityHeaders") THEN Returned(res)
    ELSE
    LET headersConfig == cfg.checks["securityHeaders"]
        configFile == HeadersConfigFile(cfg)
        configPath == PathJoin(wd, configFile)
    IN  IF ~ExistsSync(fs, configPath)
        THEN Returned([res EXCEPT
                !.warnings = Append(@, configFile \o <<" not found">>),
                !.checks = Put(@, "securityHeaders",
                    [status |-> "warn", missing |-> ConfigFileSentinel])])
        ELSE HeadersInspect(headersConfig, configFile, configPath, fs, res)

----------------------------------------------------------------------------
(* DatabaseSecurity.run                                                    *)

DefaultDbConfigFile == <<"lib", "/", "database.ts">>

DefaultDbChecks == <<"sslValidation", "connectionLimits", "timeouts">>

DatabaseIssues(checks, content) ==
    (IF ArrayIncludes(checks, "sslValidation")
        /\ Includes(content, <<"rejectUnauthorized: false">>)
     THEN <<"SSL certificate validation disabled">> ELSE <<>>)
    \o
    (IF ArrayIncludes(checks, "connectionLimits")
        /\ (~Includes(content, <<"max:">>) \/ ~Includes(content, <<"min:">>))
     THEN <<"Connection pool limits not configured">> ELSE <<>>)
    \o
    (IF ArrayIncludes(checks, "timeouts") /\ ~Includes(content, <<"timeout">>)
     THEN <<"Query timeouts not configured">> ELSE <<>>)

\* run() assigning a fresh warnings list instead of pushing onto the shared one
DatabaseSecurity_run_ReplacesWarnings(cfg, wd, fs, res) ==
    IF ~Enabled(cfg, "databaseSecurity") THEN Returned(res)
    ELSE
    LET dbConfig == cfg.checks["databaseSecurity"]
        configFile == IF Has(dbConfig, "configFile")
                      THEN dbConfig.configFile ELSE DefaultDbConfigFile
        dbConfigPath == PathJoin(wd, configFile)
    IN  IF ~ExistsSync(fs, dbConfigPath)
        THEN Returned([res EXCEPT
                !.warnings =
                    << <<"Database configuration not found: ">> \o dbConfigPath >>,
                !.checks = Put(@, "databaseSecurity",
                    [status |-> "warn", missing |-> ConfigFileSentinel])])
        ELSE IF IsDirectory(fs, dbConfigPath)
        THEN Threw(res, "EISDIR: illegal operation on a directory, read")
        ELSE
        LET content == fs[dbConfigPath].content
            checks == IF Has(dbConfig, "checks")
                      THEN dbConfig.checks ELSE DefaultDbChecks
            securityIssues == DatabaseIssues(checks, content)
        IN  Returned([res EXCEPT !.checks =
                Put(@, "databaseSecurity",
                    [status     |-> IF Len(securityIssues) = 0
                                    THEN "pass" ELSE "warn",
                     issues     |-> securityIssues,
                     configFile |-> configFile])])

DatabaseSecurity_run(cfg, wd, fs, res) ==
    IF ~Enabled(cfg, "databaseSecurity") THEN Returned(res)
    ELSE
    LET dbConfig == cfg.checks["databaseSecurity"]
        configFile == IF Has(dbConfig, "configFile")
                      THEN dbConfig.configFile ELSE DefaultDbConfigFile
        dbConfigPath == PathJoin(wd, configFile)
    IN  IF ~ExistsSync(fs, dbConfigPath)
        THEN Returned([res EXCEPT
                !.warnings = Append(@,
                    <<"Database configuration not found: ">> \o dbConfigPath),
                !.checks = Put(@, "databaseSecurity",
                    [status |-> "warn", missing |-> ConfigFileSentinel])])
        ELSE IF IsDirectory(fs, dbConfigPath)
        THEN Threw(res, "EISDIR: illegal operation on a directory, read")
        ELSE
        LET content == fs[dbConfigPath].content
            checks == IF Has(dbConfig, "checks")
                      THEN dbConfig.checks ELSE DefaultDbChecks
            securityIssues == DatabaseIssues(checks, content)
        IN  Returned([res EXCEPT !.checks =
                Put(@, "databaseSecurity",
                    [status     |-> IF Len(securityIssues) = 0
                                    THEN "pass" ELSE "warn",
                     issues     |-> securityIssues,
                     configFile |-> configFile])])

----------------------------------------------------------------------------
(* ApiSecurity.run and ApiSecurity.findApiFiles                            *)

DefaultApiDirectory == <<"app", "/", "api">>

DefaultFilePatterns == <<"route.ts", "route.js">>

DefaultAuthMiddleware == << <<"withAuth">>, <<"withOptionalAuth">> >>

DefaultValidationMiddleware == << <<"withValidation">>, <<"zod">> >>

ApiDirectorySentinel == <<"api_directory">>

\* readDir(currentDir) of findApiFiles: the files pushed while the items of
\* currentDir from position i on are visited, in the order they are pushed
RECURSIVE ReadDirFrom(_, _, _, _)
ReadDirFrom(fs, currentDir, i, filePatterns) ==
    LET items == fs[currentDir].items
    IN  IF i > Len(items) THEN <<>>
        ELSE
        LET item == items[i]
            fullPath == PathJoin(currentDir, <<item>>)
            here == IF IsDirectory(fs, fullPath)
                    THEN ReadDirFrom(fs, fullPath, 1, filePatterns)
                    ELSE IF ArrayIncludes(filePatterns, item)
                    THEN <<fullPath>> ELSE <<>>
        IN  here \o ReadDirFrom(fs, currentDir, i + 1, filePatterns)

\* findApiFiles without the recursion into subdirectories
FindApiFiles_TopLevelOnly(fs, dir, filePatterns) ==
    LET matching == SelectSeq(fs[dir].items,
            LAMBDA item : /\ ~IsDirectory(fs, PathJoin(dir, <<item>>))
                          /\ ArrayIncludes(filePatterns, item))
    IN  [i \in 1..Len(matching) |-> PathJoin(dir, <<matching[i]>>)]

FindApiFiles(fs, dir, filePatterns) == ReadDirFrom(fs, dir, 1, filePatterns)

ApiStatus(unprotectedEndpoints, missingValidation) ==
    IF Len(unprotectedEndpoints) = 0 THEN "pass" ELSE "warn"

ApiSecurity_run(cfg, wd, fs, res) ==
    IF ~Enabled(cfg, "apiSecurity") THEN Returned(res)
    ELSE
    LET apiConfig == cfg.checks["apiSecurity"]
        apiDir == PathJoin(wd, IF Has(apiConfig, "apiDirectory")
                               THEN apiConfig.apiDirectory
                               ELSE DefaultApiDirectory)
    IN  IF ~ExistsSync(fs, apiDir)
        THEN Returned([res EXCEPT
                !.warnings = Append(@, <<"API directory not found: ">> \o apiDir),
                !.checks = Put(@, "apiSecurity",
                    [status |-> "warn", missing |-> ApiDirectorySentinel])])
        ELSE IF ~IsDirectory(fs, apiDir)
        THEN Threw(res, "ENOTDIR: not a directory, scandir")
        ELSE
        LET filePatterns == IF Has(apiConfig, "filePatterns")
                            THEN apiConfig.filePatterns ELSE DefaultFilePatterns
            apiFiles == FindApiFiles(fs, apiDir, filePatterns)
            authMiddleware == IF Has(apiConfig, "authMiddleware")
                              THEN apiConfig.authMiddleware
                              ELSE DefaultAuthMiddleware
            validationMiddleware == IF Has(apiConfig, "validationMiddleware")
                                    THEN apiConfig.validationMiddleware
                                    ELSE DefaultValidationMiddleware
            unprotectedEndpoints == SelectSeq(apiFiles,
                LAMBDA file : ~IncludesSome(fs[file].content, authMiddleware))
            missingValidation == SelectSeq(apiFiles,
                LAMBDA file : ~IncludesSome(fs[file].content, validationMiddleware))
        IN  Returned([res EXCEPT !.checks =
                Put(@, "apiSecurity",
                    [status |-> ApiStatus(unprotectedEndpoints, missingValidation),
                     unprotectedEndpoints |-> Len(unprotectedEndpoints),
                     missingValidation    |-> Len(missingValidation),
                     totalFiles           |-> Len(apiFiles)])])

----------------------------------------------------------------------------
(* ReportGenerator                                                         *)

DefaultReportFile == <<"security-report.json">>

\* this.config.output?.includeRecommendations
IncludeRecommendations(cfg) ==
    /\ Has(cfg, "output")
    /\ Has(cfg.output, "includeRecommendations")
    /\ cfg.output.includeRecommendations

PackageManagerOf(cfg) ==
    IF Has(cfg, "packageManager") THEN cfg.packageManager ELSE "npm"

\* a recommendation record whose priority is always 'high'
Recommendation_AllHigh(priority, category, title, description) ==
    [priority |-> "high", category |-> category, title |-> title,
     description |-> description]

Recommendation(priority, category, title, description) ==
    [priority |-> priority, category |-> category, title |-> title,
     description |-> description]

\* the test written as "not an empty list", which an absent record passes
FieldNonEmpty_OrAbsent(checks, name, field) ==
    ~(/\ Has(checks, name)
      /\ Has(checks[name], field)
      /\ Len(checks[name][field]) = 0)

\* this.results.checks.<name>?.<field>?.length > 0
FieldNonEmpty(checks, name, field) ==
    /\ Has(checks, name)
    /\ Has(checks[name], field)
    /\ Len(checks[name][field]) > 0

\* this.results.checks.<name>?.<field> > 0
FieldPositive(checks, name, field) ==
    /\ Has(checks, name)
    /\ Has(checks[name], field)
    /\ checks[name][field] > 0

DerivedRecommendations(cfg, res) ==
    (IF Len(res.vulnerabilities) > 0
     THEN << Recommendation("high", "dependencies",
                "Update vulnerable dependencies",
                <<"Found ", ToString(Len(res.vulnerabilities)),
                  " vulnerabilities. Run '", PackageManagerOf(cfg),
                  " update' to fix them.">>) >>
     ELSE <<>>)
    \o
    (IF FieldNonEmpty(res.checks, "environmentVariables", "missing")
     THEN << Recommendation("high", "environment",
                "Configure missing environment variables",
                <<"Set up all required environment variables for production deployment.">>) >>
     ELSE <<>>)
    \o
    (IF FieldPositive(res.checks, "apiSecurity", "unprotectedEndpoints")
     THEN << Recommendation("high", "api", "Protect API endpoints",
                <<"Add authentication middleware to all sensitive API endpoints.">>) >>
     ELSE <<>>)
    \o
    (IF FieldNonEmpty(res.checks, "securityHeaders", "missing")
     THEN << Recommendation("medium", "headers", "Implement security headers",
                <<"Add comprehensive security headers to prevent common attacks.">>) >>
     ELSE <<>>)
    \o
    (IF FieldNonEmpty(res.checks, "databaseSecurity", "issues")
     THEN << Recommendation("medium", "database", "Improve database security",
                <<"Configure proper SSL settings and connection limits.">>) >>
     ELSE <<>>)

\* generateRecommendations without the test of output.includeRecommendations
ReportGenerator_generateRecommendations_Always(cfg, res) ==
    [res EXCEPT !.recommendations = @ \o DerivedRecommendations(cfg, res)]

ReportGenerator_generateRecommendations(cfg, res) ==
    IF ~IncludeRecommendations(cfg) THEN res
    ELSE [res EXCEPT !.recommendations = @ \o DerivedRecommendations(cfg, res)]

NoReport == [written |-> FALSE]

\* fs.writeFileSync(reportPath, JSON.stringify(this.results, null, 2))
ReportGenerator_generateReport(cfg, wd, res) ==
    [written |-> TRUE,
     path    |-> PathJoin(wd, IF Has(cfg, "output") /\ Has(cfg.output, "reportFile")
                              THEN cfg.output.reportFile ELSE DefaultReportFile),
     content |-> res]

----------------------------------------------------------------------------
(* ConfigLoader: reading the configuration file.                           *)

DefaultConfigPath == <<"security-monitor.config.json">>

\* the file at a path: absent, a directory, text that is not JSON, or JSON
\* text; JSON text parses to null or to an object, nullKeys being the keys
\* of the object whose value is null
MissingFile(path) == [path |-> path, kind |-> "missing"]

DirectoryAt(path) == [path |-> path, kind |-> "directory"]

InvalidJson(path) == [path |-> path, kind |-> "invalid"]

JsonNull(path) == [path |-> path, kind |-> "json", isNull |-> TRUE]

JsonObject(path, value, nullKeys) ==
    [path |-> path, kind |-> "json", isNull |-> FALSE, value |-> value,
     nullKeys |-> nullKeys]

JsonFile(path, value) == JsonObject(path, value, {})

\* a configuration object handed over without reading a file
NotRead == [kind |-> "unread"]

\* the try block of load: the configuration it returns or the error it throws
ParseConfig(file) ==
    IF file.kind = "missing"
    THEN [ok |-> FALSE,
          message |-> <<"Configuration file not found: ">> \o file.path]
    ELSE IF file.kind = "directory"
    THEN [ok |-> FALSE,
          message |-> <<"EISDIR: illegal operation on a directory, read">>]
    ELSE IF file.kind = "invalid"
    THEN [ok |-> FALSE, message |-> <<"Unexpected token in JSON">>]
    ELSE IF file.isNull
    THEN [ok |-> FALSE,
          message |-> <<"Cannot read properties of null (reading 'checks')">>]
    ELSE IF ~Has(file.value, "checks") \/ "checks" \in file.nullKeys
    THEN [ok |-> FALSE,
          message |-> <<"Configuration must include \"checks\" section">>]
    ELSE [ok |-> TRUE, config |-> file.value]

\* load with a catch block that ends the process with process.exit()
ConfigLoader_load_ExitsZero(file) ==
    LET parsed == ParseConfig(file)
    IN  IF parsed.ok
        THEN [returned |-> TRUE, config |-> parsed.config, stderr |-> <<>>,
              exit |-> -1, thrown |-> <<>>]
        ELSE [returned |-> FALSE,
              stderr |-> << <<"Failed to load configuration: ">>
                             \o parsed.message >>,
              exit |-> 0, thrown |-> <<>>]

\* load: the catch block writes to standard error and ends the process
ConfigLoader_load(file) ==
    LET parsed == ParseConfig(file)
    IN  IF parsed.ok
        THEN [returned |-> TRUE, config |-> parsed.config, stderr |-> <<>>,
              exit |-> -1, thrown |-> <<>>]
        ELSE [returned |-> FALSE,
              stderr |-> << <<"Failed to load configuration: ">>
                             \o parsed.message >>,
              exit |-> 1, thrown |-> <<>>]

----------------------------------------------------------------------------
(* SecurityMonitor: the accumulator, run() and the CLI entry point.        *)

\* this.results as the constructor builds it
NewResults(cfg) ==
    [timestamp       |-> "t0",
     project         |-> cfg.project,
     checks          |-> EmptyObject,
     vulnerabilities |-> <<>>,
     warnings        |-> <<>>,
     recommendations |-> <<>>]

\* checkModule.run() of this.checks[name]
CheckRun(name, cfg, env, wd, fs, tool, res) ==
    CASE name = "dependencyAudit"      -> DependencyAudit_run(cfg, tool, res)
      [] name = "environmentVariables" -> EnvironmentVariables_run(cfg, env, res)
      [] name = "securityHeaders"      -> SecurityHeaders_run(cfg, wd, fs, res)
      [] name = "apiSecurity"          -> ApiSecurity_run(cfg, wd, fs, res)
      [] name = "databaseSecurity"     -> DatabaseSecurity_run(cfg, wd, fs, res)

\* a catch block that logs the error and records nothing
Caught_LogOnly(name, r) == r.results

\* a catch block that files every error record under the first check's name
Caught_Misfiled(name, r) ==
    IF r.threw
    THEN [r.results EXCEPT
            !.checks = Put(@, CheckOrder[1], ErrorOutcome(r.message))]
    ELSE r.results

\* the catch block of the loop in SecurityMonitor.run
Caught(name, r) ==
    IF r.threw
    THEN [r.results EXCEPT !.checks = Put(@, name, ErrorOutcome(r.message))]
    ELSE r.results

\* position in Object.entries(this.checks)
IndexOf(name) == CHOOSE i \in 1..Len(CheckOrder) : CheckOrder[i] = name

\* run() going from the loop straight to generateReport
AfterCheck_SkipsDeriver(name) ==
    IF IndexOf(name) < Len(CheckOrder)
    THEN CheckOrder[IndexOf(name) + 1]
    ELSE "generateReport"

\* the loop written over Object.keys(this.config.checks)
AfterCheck_ConfigOrder(name) ==
    LET keys == config.checkKeys
        at == CHOOSE i \in 1..Len(keys) : keys[i] = name
    IN  IF at < Len(keys) THEN keys[at + 1] ELSE "generateRecommendations"

AfterCheck(name) ==
    IF IndexOf(name) < Len(CheckOrder)
    THEN CheckOrder[IndexOf(name) + 1]
    ELSE "generateRecommendations"

\* the loop without its try/catch: an error of a check ends run()
RunCheck_NoCatch ==
    /\ pc \in CheckNames
    /\ IF Enabled(config, pc)
       THEN LET r == CheckRun(pc, config, processEnv, cwd, files, auditTool,
                              results)
            IN  /\ results' = r.results
                /\ invoked' = Append(invoked, pc)
                /\ thrown' = IF r.threw THEN thrown \cup {pc} ELSE thrown
                /\ pc' = IF r.threw THEN "rejected" ELSE AfterCheck(pc)
       ELSE /\ UNCHANGED <<results, invoked, thrown>>
            /\ pc' = AfterCheck(pc)
    /\ UNCHANGED <<environment, loading, report, exitCode, runs>>

\* one iteration of the for loop of SecurityMonitor.run
RunCheck ==
    /\ pc \in CheckNames
    /\ IF Enabled(config, pc)
       THEN LET r == CheckRun(pc, config, processEnv, cwd, files, auditTool,
                              results)
            IN  /\ results' = Caught(pc, r)
                /\ invoked' = Append(invoked, pc)
                /\ thrown' = IF r.threw THEN thrown \cup {pc} ELSE thrown
       ELSE UNCHANGED <<results, invoked, thrown>>
    /\ pc' = AfterCheck(pc)
    /\ UNCHANGED <<environment, loading, report, exitCode, runs>>

GenerateRecommendations ==
    /\ pc = "generateRecommendations"
    /\ results' = ReportGenerator_generateRecommendations(config, results)
    /\ invoked' = Append(invoked, "generateRecommendations")
    /\ pc' = "generateReport"
    /\ UNCHANGED <<environment, loading, thrown, report, exitCode, runs>>

GenerateReport ==
    /\ pc = "generateReport"
    /\ report' = ReportGenerator_generateReport(config, cwd, results)
    /\ invoked' = Append(invoked, "generateReport")
    /\ pc' = "completed"
    /\ UNCHANGED <<environment, loading, results, thrown, exitCode, runs>>

\* index.js: monitor.run().catch(console.error), then the process ends
Exit ==
    /\ pc = "completed"
    /\ exitCode' = 0
    /\ pc' = "exited"
    /\ UNCHANGED <<environment, loading, results, invoked, thrown, report, runs>>

\* before new SecurityMonitor(configPath): no configuration, no accumulator
NotLoaded == [loaded |-> FALSE]

NotConstructed == [constructed |-> FALSE]

\* index.js: new SecurityMonitor(configPath); the constructor loads the
\* configuration and builds the accumulator, or load ends the process
Construct ==
    /\ pc = "construct"
    /\ LET loaded == ConfigLoader_load(configSource)
       IN  /\ stderr' = stderr \o loaded.stderr
           /\ loadError' = loaded.thrown
           /\ IF loaded.returned
              THEN /\ config' = loaded.config
                   /\ results' = NewResults(loaded.config)
                   /\ pc' = CheckOrder[1]
                   /\ UNCHANGED exitCode
              ELSE /\ pc' = "exited"
                   /\ exitCode' = loaded.exit
                   /\ UNCHANGED <<config, results>>
    /\ UNCHANGED <<configSource, processEnv, cwd, files, auditTool, invoked,
                   thrown, report, runs>>

\* await check.run() called on a check module by itself, as the unit tests do
DirectRun(name) ==
    /\ pc = "direct"
    /\ runs < MaxRuns
    /\ LET r == CheckRun(name, config, processEnv, cwd, files, auditTool, results)
       IN  /\ results' = r.results
           /\ thrown' = IF r.threw THEN thrown \cup {name} ELSE thrown
    /\ invoked' = Append(invoked, name)
    /\ runs' = runs + 1
    /\ UNCHANGED <<environment, loading, pc, report, exitCode>>

----------------------------------------------------------------------------
(* Configurations, environments and filesystems the runs start from.       *)

Project == [name |-> "Test Project"]

ProjectDir == <<"/", "proj">>

File(content) == [isDirectory |-> FALSE, content |-> content, items |-> <<>>]

Directory(items) == [isDirectory |-> TRUE, content |-> <<>>, items |-> items]

NoFiles == [p \in {} |-> File(<<>>)]

Array(items) == [isArray |-> TRUE, items |-> items]

NotAnArray == [isArray |-> FALSE, items |-> <<>>]

Disabled == [enabled |-> FALSE]

\* A case of one check: whether config.checks has its key, its settings, and the
\* part of the environment it reads.
Case(present, settings, env, fs, tool) ==
    [present |-> present, settings |-> settings, env |-> env, fs |-> fs,
     tool |-> tool]

NoVulnerabilities == [kind |-> "json", hasVulnerabilities |-> TRUE, entries |-> <<>>]

AuditEntries(severities) ==
    [i \in 1..Len(severities) |->
        [package  |-> ToString(i),
         isNull   |-> severities[i] = "null",
         severity |-> severities[i]]]

AuditJson(severities) ==
    [kind |-> "json", hasVulnerabilities |-> TRUE,
     entries |-> AuditEntries(severities)]

AuditFailure(kind) ==
    [kind |-> kind, hasVulnerabilities |-> FALSE, entries |-> <<>>]

NoEnv == [k \in {} |-> <<>>]

SkippedCases ==
    {Case(FALSE, Disabled, NoEnv, NoFiles, NoVulnerabilities),
     Case(TRUE, Disabled, NoEnv, NoFiles, NoVulnerabilities)}

AuditSettings == [enabled |-> TRUE, command |-> "audit --json"]

DependencyCases ==
    SkippedCases \cup
    {Case(TRUE, AuditSettings, NoEnv, NoFiles, tool) :
        tool \in {AuditFailure("execFails"),
                  AuditJson(<<>>),
                  AuditJson(<<"high">>),
                  AuditJson(<<"moderate">>),
                  AuditJson(<<"low", "null">>)}}

EnvSettings(required) ==
    [enabled   |-> TRUE,
     required  |-> required,
     optional  |-> <<"DEBUG">>,
     minLength |-> 1,
     patterns  |-> [insecure |-> << <<"k">> >>]]

EnvironmentCases ==
    SkippedCases \cup
    {Case(TRUE, EnvSettings(Array(<<"DATABASE_URL">>)), env, NoFiles,
          NoVulnerabilities) :
        env \in {("DATABASE_URL" :> <<"x", "x">>),
                 NoEnv,
                 ("DATABASE_URL" :> <<"x", "x">>) @@ ("API_KEY" :> <<"k">>)}}
    \cup
    {Case(TRUE, EnvSettings(NotAnArray), NoEnv, NoFiles, NoVulnerabilities)}

HeadersFile == <<"next.config.js">>

HeadersSettings ==
    [enabled    |-> TRUE,
     configFile |-> HeadersFile,
     required   |-> << <<"X-Frame-Options">>, <<"X-Content-Type-Options">> >>]

HeadersCases ==
    SkippedCases \cup
    {Case(TRUE, HeadersSettings, NoEnv, fs, NoVulnerabilities) :
        fs \in {NoFiles,
                (PathJoin(ProjectDir, HeadersFile) :> Directory(<<>>)),
                (PathJoin(ProjectDir, HeadersFile) :>
                    File(<<"key: '", "X-Frame-Options", "', key: '",
                           "X-Content-Type-Options", "'">>)),
                (PathJoin(ProjectDir, HeadersFile) :>
                    File(<<"key: '", "X-Frame-Options", "'">>))}}

ApiDirectory == <<"pages", "/", "api">>

ApiSettings(filePatterns) ==
    [enabled              |-> TRUE,
     apiDirectory         |-> ApiDirectory,
     filePatterns         |-> filePatterns,
     authMiddleware       |-> << <<"withAuth">> >>,
     validationMiddleware |-> << <<"withValidation">> >>]

Protected == <<"withAuth", "(", "withValidation", "(", "handler", ")", ")">>

Unprotected == <<"handler">>

Unvalidated == <<"withAuth", "(", "handler", ")">>

\* the API directory holding one route file
OneRoute(wd, content) ==
    (PathJoin(wd, ApiDirectory) :> Directory(<<"route.ts">>))
    @@ (PathJoin(PathJoin(wd, ApiDirectory), <<"route.ts">>) :> File(content))

ApiCases ==
    SkippedCases \cup
    {Case(TRUE, ApiSettings(<<"route.ts">>), NoEnv, fs, NoVulnerabilities) :
        fs \in {NoFiles,
                (PathJoin(ProjectDir, ApiDirectory) :> File(<<>>)),
                OneRoute(ProjectDir, Protected),
                OneRoute(ProjectDir, Unprotected),
                OneRoute(ProjectDir, Unvalidated)}}

DbFile == <<"lib", "/", "database.ts">>

DbSettings == [enabled |-> TRUE, configFile |-> DbFile]

DatabaseCases ==
    SkippedCases \cup
    {Case(TRUE, DbSettings, NoEnv, fs, NoVulnerabilities) :
        fs \in {NoFiles,
                (PathJoin(ProjectDir, DbFile) :> Directory(<<>>)),
                (PathJoin(ProjectDir, DbFile) :>
                    File(<<"rejectUnauthorized: true", "max:", "min:", "timeout">>)),
                (PathJoin(ProjectDir, DbFile) :>
                    File(<<"rejectUnauthorized: false", "max:", "min:">>))}}

OutputCases ==
    {[reportFile |-> <<"test-security-report.json">>,
      includeRecommendations |-> inc] : inc \in BOOLEAN}
    \cup {[reportFile |-> <<"test-security-report.json">>]}

\* config.checks: the keys of the cases that are present
ChecksOf(cases) ==
    [name \in {n \in CheckNames : cases[n].present} |-> cases[name].settings]

Configuration(cases, output) ==
    [project        |-> Project,
     packageManager |-> "npm",
     checks         |-> ChecksOf(cases),
     output         |-> output]

\* the state in which index.js has constructed the monitor and calls run()
Init ==
    \E d \in DependencyCases, e \in EnvironmentCases, h \in HeadersCases,
       a \in ApiCases, b \in DatabaseCases, output \in OutputCases :
        LET cases == ("dependencyAudit" :> d) @@ ("environmentVariables" :> e)
                     @@ ("securityHeaders" :> h) @@ ("apiSecurity" :> a)
                     @@ ("databaseSecurity" :> b)
        IN  /\ config = Configuration(cases, output)
            /\ configSource = JsonFile(DefaultConfigPath, config)
            /\ stderr = <<>>
            /\ loadError = <<>>
            /\ processEnv = e.env
            /\ cwd = ProjectDir
            /\ files = h.fs @@ a.fs @@ b.fs
            /\ auditTool = d.tool
            /\ results = NewResults(config)
            /\ pc = CheckOrder[1]
            /\ invoked = <<>>
            /\ thrown = {}
            /\ report = NoReport
            /\ exitCode = -1
            /\ runs = 0

Next ==
    \/ RunCheck
    \/ GenerateRecommendations
    \/ GenerateReport
    \/ Exit

Spec == Init /\ [][Next]_vars

----------------------------------------------------------------------------
(* The process from its start: index.js reads the configuration path off   *)
(* the command line, constructs the monitor and runs it.                   *)

\* process.argv[2] || 'security-monitor.config.json'
ConfigPaths == {DefaultConfigPath, <<"non-existent.json">>}

\* files from which no configuration can be loaded
UnloadableSources ==
    UNION {{MissingFile(path), DirectoryAt(path), InvalidJson(path),
            JsonNull(path),
            JsonObject(path, [project |-> Project], {}),
            JsonObject(path, [project |-> Project, checks |-> EmptyObject],
                       {"checks"})} : path \in ConfigPaths}

InitProcess(source, env, fs, tool) ==
    /\ configSource = source
    /\ config = NotLoaded
    /\ processEnv = env
    /\ cwd = ProjectDir
    /\ files = fs
    /\ auditTool = tool
    /\ results = NotConstructed
    /\ pc = "construct"
    /\ invoked = <<>>
    /\ thrown = {}
    /\ report = NoReport
    /\ exitCode = -1
    /\ runs = 0
    /\ stderr = <<>>
    /\ loadError = <<>>

InitCli ==
    \/ \E source \in UnloadableSources :
          InitProcess(source, NoEnv, NoFiles, NoVulnerabilities)
    \/ \E d \in DependencyCases, e \in EnvironmentCases, h \in HeadersCases,
          a \in ApiCases, b \in DatabaseCases, output \in OutputCases :
          LET cases == ("dependencyAudit" :> d) @@ ("environmentVariables" :> e)
                       @@ ("securityHeaders" :> h) @@ ("apiSecurity" :> a)
                       @@ ("databaseSecurity" :> b)
          IN  InitProcess(JsonFile(DefaultConfigPath,
                                   Configuration(cases, output)),
                          e.env, h.fs @@ a.fs @@ b.fs, d.tool)

NextCli ==
    \/ Construct
    \/ RunCheck
    \/ GenerateRecommendations
    \/ GenerateReport
    \/ Exit

SpecCli == InitCli /\ [][NextCli]_vars

----------------------------------------------------------------------------
(* The environment check invoked by itself over every small environment.   *)

EnvValues == StringsUpTo(MaxValueLen)

Environments == UNION {[S -> EnvValues] : S \in SUBSET EnvNames}

RequiredOptions ==
    {EmptyObject,
     ("required" :> Array(<<>>)),
     ("required" :> Array(<<"DATABASE_URL">>)),
     ("required" :> Array(<<"DATABASE_URL", "API_KEY">>)),
     ("required" :> NotAnArray)}

MinLengthOptions == {EmptyObject} \cup {("minLength" :> n) : n \in 0..2}

PatternOptions ==
    {EmptyObject} \cup
    {("patterns" :> [insecure |-> ps]) :
        ps \in {<< <<"k">> >>, << <<"K">> >>, << <<"k", "x">>, <<"K">> >>}}

EnvSettingsOptions ==
    {("enabled" :> TRUE) @@ r @@ m @@ p :
        r \in RequiredOptions, m \in MinLengthOptions, p \in PatternOptions}

InitDirect(cfg, env, wd, fs, tool) ==
    /\ config = cfg
    /\ configSource = NotRead
    /\ stderr = <<>>
    /\ loadError = <<>>
    /\ processEnv = env
    /\ cwd = wd
    /\ files = fs
    /\ auditTool = tool
    /\ results = NewResults(cfg)
    /\ pc = "direct"
    /\ invoked = <<>>
    /\ thrown = {}
    /\ report = NoReport
    /\ exitCode = -1
    /\ runs = 0

InitEnv ==
    \E settings \in EnvSettingsOptions, env \in Environments :
        InitDirect([project |-> Project,
                    checks |-> ("environmentVariables" :> settings)],
                   env, ProjectDir, NoFiles, NoVulnerabilities)

NextEnv == DirectRun("environmentVariables")

SpecEnv == InitEnv /\ [][NextEnv]_vars

----------------------------------------------------------------------------
(* Claims about a full run (Spec).                                         *)

RunOver == pc \in {"completed", "exited"}

\* config.checks[name].enabled is true, read off the configuration
ConfiguredOn(name) ==
    /\ name \in DOMAIN config.checks
    /\ "enabled" \in DOMAIN config.checks[name]
    /\ config.checks[name].enabled = TRUE

Called(call) == \E i \in 1..Len(invoked) : invoked[i] = call

\* C1: after a full run, accumulator.checks has a key for a check name exactly
\* when that check's enabled flag is true; a check whose flag is false or
\* absent leaves no key, an enabled one leaves one outcome record (a record
\* with a status) under its own name, also when it ended in error.
C1_PresentIffEnabled ==
    RunOver =>
        /\ DOMAIN results.checks = {name \in CheckNames : ConfiguredOn(name)}
        /\ \A name \in DOMAIN results.checks :
              "status" \in DOMAIN results.checks[name]

C1_Witness ==
    /\ pc = "exited"
    /\ "dependencyAudit" \notin DOMAIN config.checks
    /\ "environmentVariables" \in DOMAIN config.checks
    /\ ~ConfiguredOn("environmentVariables")
    /\ ConfiguredOn("securityHeaders")
    /\ "securityHeaders" \in thrown
    /\ results.checks["securityHeaders"].status = "error"
    /\ ConfiguredOn("apiSecurity")
    /\ results.checks["apiSecurity"].status = "pass"

\* the run of this check ended in an error: the audit command failed, its
\* output did not parse or convert, or run() raised to the orchestrator
Failed(name) ==
    \/ name \in thrown
    \/ /\ name = "dependencyAudit"
       /\ ConfiguredOn(name)
       /\ Called(name)
       /\ \/ auditTool.kind # "json"
          \/ \E i \in 1..Len(auditTool.entries) : auditTool.entries[i].isNull

\* the positions from which run() and the process go on
RunSteps ==
    CheckNames \cup {"generateRecommendations", "generateReport", "completed"}

\* C2: when an enabled check's run raises an error, the check's record is
\* {status: 'error', error: message}, every enabled check is still invoked,
\* the recommendations and the report are still generated and the run ends
\* with exit code 0, whichever checks fail; the run never stops before.
C2_FailureIsolated ==
    /\ pc \in RunSteps \cup {"exited"}
    /\ \A name \in CheckNames :
          (Failed(name) /\ pc # name) =>
              /\ name \in DOMAIN results.checks
              /\ DOMAIN results.checks[name] = {"status", "error"}
              /\ results.checks[name].status = "error"
    /\ pc = "exited" =>
          /\ \A name \in CheckNames : ConfiguredOn(name) => Called(name)
          /\ Called("generateRecommendations")
          /\ Called("generateReport")
          /\ report.written
          /\ exitCode = 0

C2_Witness ==
    /\ pc = "exited"
    /\ exitCode = 0
    /\ \A name \in CheckNames : Failed(name)
    /\ report.written
    /\ \A name \in CheckNames : report.content.checks[name].status = "error"

\* the file a file-reading check is configured to read
ConfiguredFile(name) ==
    IF "configFile" \in DOMAIN config.checks[name]
    THEN config.checks[name].configFile
    ELSE IF name = "securityHeaders" THEN <<"next.config.mjs">>
    ELSE <<"lib", "/", "database.ts">>

\* the orchestrator runs the enabled check `name` while its file is missing
RunsWithoutFile(name) ==
    /\ pc = name
    /\ pc' # pc
    /\ ConfiguredOn(name)
    /\ cwd \o <<"/">> \o ConfiguredFile(name) \notin DOMAIN files

\* C7: when the security-headers check, or the database check, is enabled and
\* its configured file does not exist, the check returns normally, writes
\* {status: 'warn', missing: 'config_file'} under its own name and appends
\* exactly one warning string to accumulator.warnings during that run.
C7_MissingFileIsWarning ==
    [][\A name \in {"securityHeaders", "databaseSecurity"} :
          RunsWithoutFile(name) =>
              /\ name \notin thrown'
              /\ name \in DOMAIN results'.checks
              /\ results'.checks[name]
                   = [status |-> "warn", missing |-> <<"config_file">>]
              /\ Len(results'.warnings) = Len(results.warnings) + 1
              /\ SubSeq(results'.warnings, 1, Len(results.warnings))
                   = results.warnings
              /\ results'.vulnerabilities = results.vulnerabilities]_vars

MissingFileRecord(name) ==
    /\ name \in DOMAIN results.checks
    /\ DOMAIN results.checks[name] = {"status", "missing"}
    /\ results.checks[name].missing = <<"config_file">>

C7_Witness ==
    /\ pc = "exited"
    /\ MissingFileRecord("securityHeaders")
    /\ MissingFileRecord("databaseSecurity")
    /\ thrown = {}
    /\ Len(results.warnings) = 3

\* C8: when the API check is enabled and the configured API directory does
\* not exist, checks.apiSecurity is {status: 'warn', missing: 'api_directory'}
\* and accumulator.warnings holds 'API directory not found: ' followed by the
\* apiDirectory value exactly as the configuration writes it.
C8_WarningNamesConfiguredDirectory ==
    (/\ RunOver
     /\ ConfiguredOn("apiSecurity")
     /\ "apiDirectory" \in DOMAIN config.checks["apiSecurity"]
     /\ cwd \o <<"/">> \o config.checks["apiSecurity"].apiDirectory
            \notin DOMAIN files)
    => /\ results.checks["apiSecurity"]
            = [status |-> "warn", missing |-> <<"api_directory">>]
       /\ \E i \in 1..Len(results.warnings) :
             results.warnings[i]
                = <<"API directory not found: ">>
                    \o config.checks["apiSecurity"].apiDirectory

----------------------------------------------------------------------------
(* Claims about the environment check (SpecEnv).                           *)

EnvSettingsNow == config.checks["environmentVariables"]

\* the configured required-variable list, empty when not configured
RequiredList ==
    IF "required" \in DOMAIN EnvSettingsNow
    THEN EnvSettingsNow.required.items ELSE <<>>

RequiredIsList ==
    "required" \in DOMAIN EnvSettingsNow => EnvSettingsNow.required.isArray

\* the minimum length: the configured one, 10 when it is absent or 0
EffectiveMinLength ==
    IF "minLength" \in DOMAIN EnvSettingsNow /\ EnvSettingsNow.minLength > 0
    THEN EnvSettingsNow.minLength ELSE 10

ConfiguredPatterns ==
    IF "patterns" \in DOMAIN EnvSettingsNow
    THEN EnvSettingsNow.patterns.insecure
    ELSE DefaultInsecurePatterns

Lower(c) == IF c = "K" THEN "k" ELSE c

\* the value holds the pattern somewhere, letter case of the value ignored
Holds(value, pattern) ==
    \E start \in 0..(Len(value) - Len(pattern)) :
        \A j \in 1..Len(pattern) : Lower(value[start + j]) = pattern[j]

HoldsInsecure(value) ==
    \E i \in 1..Len(ConfiguredPatterns) : Holds(value, ConfiguredPatterns[i])

IsSet(name) == name \in DOMAIN processEnv

EnvRecord == results.checks["environmentVariables"]

EnvChecked ==
    /\ runs >= 1
    /\ RequiredIsList
    /\ "environmentVariables" \in DOMAIN results.checks

InSeq(x, seq) == \E i \in 1..Len(seq) : seq[i] = x

\* every required variable is set, long enough and free of insecure patterns
RequiredAllSecure ==
    \A i \in 1..Len(RequiredList) :
        /\ IsSet(RequiredList[i])
        /\ Len(processEnv[RequiredList[i]]) >= EffectiveMinLength
        /\ ~HoldsInsecure(processEnv[RequiredList[i]])

CleanOutcome ==
    /\ EnvRecord.status = "pass"
    /\ EnvRecord.missing = <<>>
    /\ EnvRecord.insecure = <<>>

EnvRunStep == runs' = runs + 1 /\ RequiredIsList

\* C5: a required variable that is unset when the environment check runs is
\* listed in missing and the status is 'warn'; and running the check again
\* with the same configuration and environment writes a record equal to the
\* first one, and appends nothing to warnings or vulnerabilities.
C5_MissingAndIdempotent ==
    [][EnvRunStep =>
          /\ \A i \in 1..Len(RequiredList) :
                ~IsSet(RequiredList[i]) =>
                    /\ InSeq(RequiredList[i],
                             results'.checks["environmentVariables"].missing)
                    /\ results'.checks["environmentVariables"].status = "warn"
          /\ results'.warnings = results.warnings
          /\ results'.vulnerabilities = results.vulnerabilities
          /\ runs >= 1 =>
                results'.checks["environmentVariables"]
                    = results.checks["environmentVariables"]]_vars

C5_Witness ==
    /\ runs = 2
    /\ RequiredList = <<"DATABASE_URL", "API_KEY">>
    /\ ~IsSet("DATABASE_URL")
    /\ IsSet("API_KEY")
    /\ EnvRecord.missing = <<"DATABASE_URL">>
    /\ EnvRecord.status = "warn"

\* C6: a required variable whose value holds a configured insecure pattern
\* is listed in insecure and the status is 'warn', also when the value is at
\* least twice minLength long (the values of the unit test).
C6_PatternFlagsRequired ==
    EnvChecked =>
        \A i \in 1..Len(RequiredList) :
            (IsSet(RequiredList[i]) /\ HoldsInsecure(processEnv[RequiredList[i]]))
            => /\ InSeq(RequiredList[i], EnvRecord.insecure)
               /\ EnvRecord.status = "warn"

----------------------------------------------------------------------------
(* The dependency audit invoked by itself over thresholds and audit output.*)

Repeat(x, n) == [i \in 1..n |-> x]

\* the severities the tool reports, tier by tier; "null" stands for an entry
\* whose value is null
SeverityLists ==
    {before \o Repeat("critical", c) \o Repeat("high", h)
        \o Repeat("moderate", m) \o Repeat("low", l) \o after :
        c \in 0..MaxSevere, h \in 0..MaxSevere,
        m \in {0, 1, DefaultModerateThreshold, DefaultModerateThreshold + 1},
        l \in {0, 1, DefaultLowThreshold, DefaultLowThreshold + 1},
        before \in {<<>>, <<"null">>},
        after \in {<<>>, <<"null">>, <<"info">>}}

AuditOutputs ==
    {AuditJson(severities) : severities \in SeverityLists}
    \cup {AuditFailure("execFails"), AuditFailure("notJSON"),
          [kind |-> "json", hasVulnerabilities |-> FALSE, entries |-> <<>>]}

ThresholdOptions ==
    {c @@ h @@ m @@ l :
        c \in {EmptyObject} \cup {("critical" :> n) : n \in 0..1},
        h \in {EmptyObject} \cup {("high" :> n) : n \in 0..1},
        m \in {EmptyObject} \cup {("moderate" :> n) : n \in 0..2},
        l \in {EmptyObject} \cup {("low" :> n) : n \in 0..1}}

AuditSettingsOptions ==
    {AuditSettings}
    \cup {("severityThresholds" :> th) @@ AuditSettings : th \in ThresholdOptions}

InitDep ==
    \E settings \in AuditSettingsOptions, tool \in AuditOutputs :
        InitDirect([project |-> Project,
                    packageManager |-> "npm",
                    checks |-> ("dependencyAudit" :> settings)],
                   NoEnv, ProjectDir, NoFiles, tool)

NextDep == DirectRun("dependencyAudit")

SpecDep == InitDep /\ [][NextDep]_vars

----------------------------------------------------------------------------
(* Claims about the dependency audit (SpecDep).                            *)

AuditSettingsNow == config.checks["dependencyAudit"]

\* the threshold of a tier: the configured number, else the default
ConfiguredThreshold(tier) ==
    IF /\ "severityThresholds" \in DOMAIN AuditSettingsNow
       /\ tier \in DOMAIN AuditSettingsNow.severityThresholds
    THEN AuditSettingsNow.severityThresholds[tier]
    ELSE CASE tier = "critical" -> 0
           [] tier = "high"     -> 0
           [] tier = "moderate" -> 5
           [] tier = "low"      -> 10

\* the number of vulnerabilities of a tier in the tool's output
Discovered(tier) ==
    Cardinality({i \in 1..Len(auditTool.entries) :
                    auditTool.entries[i].severity = tier})

AuditParsed ==
    /\ auditTool.kind = "json"
    /\ \A i \in 1..Len(auditTool.entries) : ~auditTool.entries[i].isNull

\* C3: whenever the audit output parses, for every configured threshold
\* (absent, taking the default, or any number including 0), the status is
\* 'fail' exactly when the discovered count of some tier is strictly greater
\* than that tier's threshold, and 'pass' otherwise.
C3_FailIffThresholdExceeded ==
    (runs = 1 /\ AuditParsed) =>
        /\ results.checks["dependencyAudit"].status \in {"pass", "fail"}
        /\ results.checks["dependencyAudit"].status = "fail"
             <=> \E tier \in Tiers : Discovered(tier) > ConfiguredThreshold(tier)

----------------------------------------------------------------------------
(* The API check invoked by itself over directory trees.                   *)

FileContents == {Protected, Unprotected, Unvalidated}

\* a directory entry as readdirSync and statSync show it; a listing is a
\* sequence of entries in the order the directory enumerates them
FileEntry(name, content) ==
    [name |-> name, isDirectory |-> FALSE, content |-> content,
     children |-> <<>>]

DirEntry(name, listing) ==
    [name |-> name, isDirectory |-> TRUE, content |-> <<>>,
     children |-> listing]

\* the sequences that hold every element of S once
Orderings(S) ==
    {seq \in [1..Cardinality(S) -> S] :
        \A i, j \in 1..Cardinality(S) : i # j => seq[i] # seq[j]}

RouteChoices ==
    {{}} \cup {{FileEntry("route.ts", c)} : c \in FileContents}

OtherChoices == {{}, {FileEntry("README.md", Unprotected)}}

\* the listings of a directory with at most d levels of directories below it
RECURSIVE Listings(_)
Listings(d) ==
    LET subChoices ==
            IF d = 0 THEN {{}}
            ELSE {{}} \cup {{DirEntry("v1", l)} : l \in Listings(d - 1)}
    IN  UNION {Orderings(r \cup sub) : r \in RouteChoices, sub \in subChoices}

RootListings ==
    LET subChoices ==
            IF MaxDepth = 0 THEN {{}}
            ELSE {{}} \cup {{DirEntry("v1", l)} : l \in Listings(MaxDepth - 1)}
    IN  UNION {Orderings(r \cup sub \cup o) :
                  r \in RouteChoices, sub \in subChoices, o \in OtherChoices}

\* the filesystem nodes of the directory at dirPath with the given listing,
\* from entry i on
RECURSIVE NodesFrom(_, _, _)
NodesFrom(dirPath, listing, i) ==
    IF i > Len(listing) THEN NoFiles
    ELSE
    LET entry == listing[i]
        path == PathJoin(dirPath, <<entry.name>>)
        here == IF entry.isDirectory
                THEN (path :> Directory([k \in 1..Len(entry.children) |->
                                            entry.children[k].name]))
                     @@ NodesFrom(path, entry.children, 1)
                ELSE (path :> File(entry.content))
    IN  here @@ NodesFrom(dirPath, listing, i + 1)

Tree(dirPath, listing) ==
    (dirPath :> Directory([k \in 1..Len(listing) |-> listing[k].name]))
    @@ NodesFrom(dirPath, listing, 1)

FilePatternOptions ==
    {EmptyObject} \cup
    {("filePatterns" :> ps) :
        ps \in {<<"route.ts">>, <<"*.ts">>, <<"README.md", "route.ts">>}}

ApiSettingsOptions ==
    {fp @@ [enabled              |-> TRUE,
            apiDirectory         |-> ApiDirectory,
            authMiddleware       |-> << <<"withAuth">> >>,
            validationMiddleware |-> << <<"withValidation">> >>] :
        fp \in FilePatternOptions}

ApiFilesystems(wd) ==
    {NoFiles, (PathJoin(wd, ApiDirectory) :> File(<<>>))}
    \cup {Tree(PathJoin(wd, ApiDirectory), listing) : listing \in RootListings}

InitApi ==
    \E settings \in ApiSettingsOptions, fs \in ApiFilesystems(ProjectDir) :
        InitDirect([project |-> Project,
                    checks |-> ("apiSecurity" :> settings)],
                   NoEnv, ProjectDir, fs, NoVulnerabilities)

NextApi == DirectRun("apiSecurity")

SpecApi == InitApi /\ [][NextApi]_vars

----------------------------------------------------------------------------
(* Claims about the API check, over SpecApi.                               *)

ApiSettingsNow == config.checks["apiSecurity"]

ApiRoot == PathJoin(cwd, ApiSettingsNow.apiDirectory)

ApiRecord == results.checks["apiSecurity"]

\* the run has walked the directory and written its counts
ApiWalked ==
    /\ runs >= 1
    /\ "apiSecurity" \in DOMAIN results.checks
    /\ "unprotectedEndpoints" \in DOMAIN ApiRecord

ConfiguredFilePatterns ==
    IF "filePatterns" \in DOMAIN ApiSettingsNow
    THEN {ApiSettingsNow.filePatterns[i] :
             i \in 1..Len(ApiSettingsNow.filePatterns)}
    ELSE {"route.ts", "route.js"}

\* word occurs in the text of a file
Mentions(text, word) ==
    \E start \in 1..Len(text) :
        /\ start + Len(word) - 1 <= Len(text)
        /\ \A k \in 1..Len(word) : text[start + k - 1] = word[k]

UsesAuth(fs, path) ==
    \E i \in 1..Len(ApiSettingsNow.authMiddleware) :
        Mentions(fs[path].content, ApiSettingsNow.authMiddleware[i])

\* the files anywhere in the tree whose name is one of the patterns
DiscoveredFiles(fs) ==
    {path \in DOMAIN fs :
        /\ ~fs[path].isDirectory
        /\ path[Len(path)] \in ConfiguredFilePatterns}

ListingOrders(seq) ==
    {p \in [1..Len(seq) -> {seq[i] : i \in 1..Len(seq)}] :
        \A i, j \in 1..Len(seq) : i # j => p[i] # p[j]}

\* the filesystems that differ from fs only in the order in which the
\* directories at the given paths list their children
RECURSIVE ReorderedOver(_, _)
ReorderedOver(fs, paths) ==
    IF paths = {} THEN {fs}
    ELSE
    LET path == CHOOSE p \in paths : TRUE
        variants == IF fs[path].isDirectory
                    THEN {[fs[path] EXCEPT !.items = p] :
                             p \in ListingOrders(fs[path].items)}
                    ELSE {fs[path]}
    IN  {[g EXCEPT ![path] = v] :
            g \in ReorderedOver(fs, paths \ {path}), v \in variants}

Reorderings(fs) == ReorderedOver(fs, DOMAIN fs)

UnprotectedCountOver(fs) ==
    ApiSecurity_run(config, cwd, fs, NewResults(config))
        .results.checks["apiSecurity"].unprotectedEndpoints

\* C9: over any directory tree, unprotectedEndpoints is the number of
\* discovered files whose content contains none of the configured
\* auth-middleware substrings, a discovered file containing one is never
\* counted, and the count is the same under every order in which the
\* directories list their children.
C9_CountsFilesWithoutAuth ==
    ApiWalked =>
        /\ ApiRecord.unprotectedEndpoints =
               Cardinality({path \in DiscoveredFiles(files) :
                               ~UsesAuth(files, path)})
        /\ ApiRecord.totalFiles - ApiRecord.unprotectedEndpoints =
               Cardinality({path \in DiscoveredFiles(files) :
                               UsesAuth(files, path)})
        /\ \A fs \in Reorderings(files) :
               UnprotectedCountOver(fs) = ApiRecord.unprotectedEndpoints

\* three route files on three levels, the directory listed before the file,
\* two of them without auth middleware and one with it
C9_Witness ==
    /\ ApiWalked
    /\ ApiRecord.totalFiles = 3
    /\ ApiRecord.unprotectedEndpoints = 2
    /\ files[ApiRoot].items[1] = "v1"
    /\ Len(files[ApiRoot].items) = 3
    /\ \E path \in DOMAIN files :
           /\ Len(path) = Len(ApiRoot) + 6
           /\ ~files[path].isDirectory
           /\ ~UsesAuth(files, path)

ApiDirectoryExists ==
    /\ ApiRoot \in DOMAIN files
    /\ files[ApiRoot].isDirectory

\* C10: when the API directory exists, the status is 'warn' whenever
\* unprotectedEndpoints > 0 or missingValidation > 0, and 'pass' only when
\* both counts are zero.
C10_EitherGapWarns ==
    (runs >= 1 /\ ApiDirectoryExists) =>
        /\ "apiSecurity" \in DOMAIN results.checks
        /\ ApiRecord.status \in {"pass", "warn"}
        /\ ApiRecord.status = "warn"
             <=> (ApiRecord.unprotectedEndpoints > 0
                  \/ ApiRecord.missingValidation > 0)

----------------------------------------------------------------------------
(* Claims about the recommendations of a full run (Spec).                  *)

Categories == {"dependencies", "environment", "api", "headers", "database"}

\* the record a check left has this field
Recorded(name, field) ==
    /\ name \in DOMAIN results.checks
    /\ field \in DOMAIN results.checks[name]

\* the triggering condition of a problem category, read off the accumulator;
\* the missing field of the headers record is the list of header names or the
\* marker of an absent configuration file, both non-empty
Triggered(category) ==
    CASE category = "dependencies" -> results.vulnerabilities # <<>>
      [] category = "environment" ->
            /\ Recorded("environmentVariables", "missing")
            /\ results.checks["environmentVariables"].missing # <<>>
      [] category = "api" ->
            /\ Recorded("apiSecurity", "unprotectedEndpoints")
            /\ results.checks["apiSecurity"].unprotectedEndpoints > 0
      [] category = "headers" ->
            /\ Recorded("securityHeaders", "missing")
            /\ results.checks["securityHeaders"].missing # <<>>
      [] category = "database" ->
            /\ Recorded("databaseSecurity", "issues")
            /\ results.checks["databaseSecurity"].issues # <<>>

RecommendationsIncluded ==
    /\ "output" \in DOMAIN config
    /\ "includeRecommendations" \in DOMAIN config.output
    /\ config.output.includeRecommendations = TRUE

RecommendedCategories ==
    {results.recommendations[i].category :
        i \in 1..Len(results.recommendations)}

\* C11: after a full run, the number of recommendations is the number of
\* problem categories whose triggering condition is non-empty or non-zero,
\* each category appears at most once, the number never exceeds five, and it
\* is zero when output.includeRecommendations is false.
C11_OnePerTriggeredCategory ==
    RunOver =>
        /\ RecommendationsIncluded =>
              /\ Len(results.recommendations)
                    = Cardinality({c \in Categories : Triggered(c)})
              /\ RecommendedCategories = {c \in Categories : Triggered(c)}
        /\ ~RecommendationsIncluded => Len(results.recommendations) = 0
        /\ Cardinality(RecommendedCategories) = Len(results.recommendations)
        /\ Len(results.recommendations) <= 5

\* a run in which all five categories are triggered
C11_Witness ==
    /\ pc = "exited"
    /\ RecommendationsIncluded
    /\ \A c \in Categories : Triggered(c)
    /\ Len(results.recommendations) = 5

----------------------------------------------------------------------------
(* Claims about loading the configuration (SpecCli).                       *)

\* no configuration can be loaded from the file: it is missing or unreadable,
\* is not JSON, or its JSON has no checks
LoadFails ==
    \/ configSource.kind \in {"missing", "directory", "invalid"}
    \/ /\ configSource.kind = "json"
       /\ \/ configSource.isNull
          \/ "checks" \notin DOMAIN configSource.value
          \/ "checks" \in configSource.nullKeys

LacksChecks ==
    /\ configSource.kind = "json"
    /\ ~configSource.isNull
    /\ "checks" \notin DOMAIN configSource.value

Constructing == pc = "construct"

\* C12: a configuration-load failure (file missing, not valid JSON, or
\* lacking the checks key) is fatal: the process ends with exit code 1 and a
\* message on standard error, no check is ever invoked and no report file is
\* written.
C12_LoadFailureIsFatal ==
    LoadFails =>
        /\ invoked = <<>>
        /\ ~report.written
        /\ Constructing \/ pc = "exited"
        /\ pc = "exited" =>
              /\ exitCode = 1
              /\ Len(stderr) = 1
              /\ configSource.kind = "missing" =>
                    Mentions(stderr[1], <<"Configuration file not found: ">>)

C12_Witness ==
    /\ pc = "exited"
    /\ exitCode = 1
    /\ LacksChecks
    /\ stderr # <<>>
    /\ results = NotConstructed

\* C13: ConfigLoader.load throws an error to its caller when the
\* configuration cannot be loaded: one mentioning 'Configuration file not
\* found' for a non-existent file, an error for invalid JSON, and
\* 'Configuration must include "checks" section' when the checks key is
\* missing.
C13_LoadThrowsToCaller ==
    (LoadFails /\ ~Constructing) =>
        /\ loadError # <<>>
        /\ configSource.kind = "missing" =>
              Mentions(loadError, <<"Configuration file not found: ">>)
        /\ LacksChecks =>
              loadError = <<"Configuration must include \"checks\" section">>

----------------------------------------------------------------------------
(* Claims about runs in which no check is enabled (Spec).                  *)

AllDisabled == \A name \in CheckNames : ~ConfiguredOn(name)

AllFlaggedOff ==
    \A name \in CheckNames :
        /\ name \in DOMAIN config.checks
        /\ config.checks[name].enabled = FALSE

\* C14: with every check's enabled flag false, a full run ends with
\* accumulator.checks, recommendations, vulnerabilities and warnings empty,
\* whatever the value of includeRecommendations, the report file written and
\* exit code 0.
C14_AllDisabledRunIsEmpty ==
    (AllDisabled /\ RunOver) =>
        /\ DOMAIN results.checks = {}
        /\ results.recommendations = <<>>
        /\ results.vulnerabilities = <<>>
        /\ results.warnings = <<>>
        /\ \A name \in CheckNames : ~Called(name)
        /\ report.written
        /\ report.content = results
        /\ pc = "exited" => exitCode = 0

C14_Witness ==
    /\ pc = "exited"
    /\ AllFlaggedOff
    /\ RecommendationsIncluded
    /\ report.written
    /\ DOMAIN report.content.checks = {}
    /\ exitCode = 0

----------------------------------------------------------------------------
(* The headers check invoked by itself over small texts and header lists.  *)

\* the text of the configuration file, character by character
HeaderTexts == StringsUpTo(MaxValueLen + 1)

HeaderNames == StringsUpTo(MaxValueLen)

RequiredHeaderLists ==
    {<<>>} \cup {<<h>> : h \in HeaderNames}
    \cup {<<h1, h2>> : h1 \in HeaderNames, h2 \in HeaderNames}

HeadersSettingsOptions ==
    {[enabled |-> TRUE, configFile |-> HeadersFile]}
    \cup {[enabled |-> TRUE, configFile |-> HeadersFile, required |-> req] :
             req \in RequiredHeaderLists}

HeadersFilesystems ==
    {NoFiles, (PathJoin(ProjectDir, HeadersFile) :> Directory(<<>>))}
    \cup {(PathJoin(ProjectDir, HeadersFile) :> File(text)) :
             text \in HeaderTexts}

InitHeaders ==
    \E settings \in HeadersSettingsOptions, fs \in HeadersFilesystems :
        InitDirect([project |-> Project,
                    checks |-> ("securityHeaders" :> settings)],
                   NoEnv, ProjectDir, fs, NoVulnerabilities)

NextHeaders == DirectRun("securityHeaders")

SpecHeaders == InitHeaders /\ [][NextHeaders]_vars

----------------------------------------------------------------------------
(* Claims about the headers check (SpecHeaders).                           *)

HeadersSettingsNow == config.checks["securityHeaders"]

HeadersPath == PathJoin(cwd, HeadersSettingsNow.configFile)

HeadersFileExists ==
    /\ HeadersPath \in DOMAIN files
    /\ ~files[HeadersPath].isDirectory

RequiredHeaders ==
    IF "required" \in DOMAIN HeadersSettingsNow
    THEN HeadersSettingsNow.required ELSE <<>>

\* word is a substring of text
OccursIn(word, text) ==
    \E before \in 0..Len(text) :
        /\ before + Len(word) <= Len(text)
        /\ \A k \in 1..Len(word) : text[before + k] = word[k]

\* the positions of the required headers that the text does not hold
AbsentPositions ==
    {j \in 1..Len(RequiredHeaders) :
        ~OccursIn(RequiredHeaders[j], files[HeadersPath].content)}

\* the i-th smallest element of a set of numbers
Nth(S, i) == CHOOSE j \in S : Cardinality({k \in S : k <= j}) = i

HeadersRecord == results.checks["securityHeaders"]

----------------------------------------------------------------------------
(* Full runs over configurations that list the check names in different    *)
(* orders; checkKeys is Object.keys(config.checks).                        *)

KeyOrders ==
    {CheckOrder,
     [i \in 1..Len(CheckOrder) |-> CheckOrder[Len(CheckOrder) + 1 - i]],
     <<"securityHeaders", "databaseSecurity", "dependencyAudit",
       "apiSecurity", "environmentVariables">>}

Listed(caseSet) == {c \in caseSet : c.present}

InitOrder ==
    \E d \in Listed(DependencyCases), e \in Listed(EnvironmentCases),
       h \in Listed(HeadersCases), a \in Listed(ApiCases),
       b \in Listed(DatabaseCases), order \in KeyOrders :
        LET cases == ("dependencyAudit" :> d) @@ ("environmentVariables" :> e)
                     @@ ("securityHeaders" :> h) @@ ("apiSecurity" :> a)
                     @@ ("databaseSecurity" :> b)
            output == [reportFile |-> <<"test-security-report.json">>,
                       includeRecommendations |-> TRUE]
        IN  /\ config = ("checkKeys" :> order) @@ Configuration(cases, output)
            /\ configSource = JsonFile(DefaultConfigPath, config)
            /\ stderr = <<>>
            /\ loadError = <<>>
            /\ processEnv = e.env
            /\ cwd = ProjectDir
            /\ files = h.fs @@ a.fs @@ b.fs
            /\ auditTool = d.tool
            /\ results = NewResults(config)
            /\ pc = CheckOrder[1]
            /\ invoked = <<>>
            /\ thrown = {}
            /\ report = NoReport
            /\ exitCode = -1
            /\ runs = 0

SpecOrder == InitOrder /\ [][Next]_vars

----------------------------------------------------------------------------
(* Claims about the order of a run (SpecOrder).                            *)

FixedOrder ==
    <<"dependencyAudit", "environmentVariables", "securityHeaders",
      "apiSecurity", "databaseSecurity">>

\* where the run stands in the fixed order; past the last check after the loop
Position(step) ==
    IF \E i \in 1..5 : FixedOrder[i] = step
    THEN CHOOSE i \in 1..5 : FixedOrder[i] = step
    ELSE 6

ChecksInvoked == SelectSeq(invoked, LAMBDA call : call \in CheckNames)

\* C16: the enabled checks are invoked one after another in the fixed order
\* dependencyAudit, environmentVariables, securityHeaders, apiSecurity,
\* databaseSecurity, whatever order the configuration lists the names in; a
\* check is started only after the previous one has completed, so no two
\* checks run or write the accumulator at the same time.
C16_FixedOrderOneAtATime ==
    /\ ChecksInvoked =
           SelectSeq(FixedOrder,
                     LAMBDA name : ConfiguredOn(name)
                                   /\ Position(name) < Position(pc))
    /\ DOMAIN results.checks \subseteq
           {ChecksInvoked[i] : i \in 1..Len(ChecksInvoked)}
    /\ Len(invoked) > Len(ChecksInvoked) => pc \notin CheckNames

C16_Witness ==
    /\ pc = "exited"
    /\ config.checkKeys[1] = "databaseSecurity"
    /\ ChecksInvoked = FixedOrder
    /\ DOMAIN results.checks = CheckNames

----------------------------------------------------------------------------
(* Claims about the end of a run: deriver, then reporter (Spec).           *)

\* the place of a call in the log of calls, 0 when it was not made
CallIndex(call) ==
    IF Called(call)
    THEN CHOOSE i \in 1..Len(invoked) : invoked[i] = call
    ELSE 0

InLoop == pc \in CheckNames

\* C17: within a run, accumulator.recommendations stays empty until all five
\* checks have completed or been skipped; the deriver is invoked only after
\* the last check and the reporter only after the deriver has finished, so
\* the written report holds the derived recommendations and every check
\* outcome.
C17_DeriveThenReport ==
    /\ (InLoop \/ pc = "generateRecommendations") =>
          /\ results.recommendations = <<>>
          /\ ~Called("generateRecommendations")
    /\ Called("generateRecommendations") =>
          \A name \in CheckNames :
              CallIndex(name) < CallIndex("generateRecommendations")
    /\ ~Called("generateReport") <=> ~report.written
    /\ report.written =>
          /\ Called("generateRecommendations")
          /\ CallIndex("generateRecommendations") < CallIndex("generateReport")
          /\ report.content.recommendations = results.recommendations
          /\ report.content.checks = results.checks
          /\ DOMAIN report.content.checks
                = {name \in CheckNames : ConfiguredOn(name)}
          /\ RecommendationsIncluded =>
                {report.content.recommendations[i].category :
                    i \in 1..Len(report.content.recommendations)}
                = {c \in Categories : Triggered(c)}

C17_Witness ==
    /\ pc = "completed"
    /\ report.written
    /\ Len(report.content.recommendations) = 3
    /\ DOMAIN report.content.checks = CheckNames
    /\ report.content.checks["securityHeaders"].status = "error"

----------------------------------------------------------------------------
(* Claims about the order and priority of recommendations (Spec).          *)

CategoryOrder == <<"dependencies", "environment", "api", "headers", "database">>

CategoryRank(category) == CHOOSE i \in 1..5 : CategoryOrder[i] = category

PriorityOf(category) ==
    IF category \in {"dependencies", "environment", "api"}
    THEN "high" ELSE "medium"

\* C18: the recommendations the deriver appends form a subsequence of the
\* fixed category order dependencies, environment, api, headers, database,
\* with priority 'high' for the first three and 'medium' for headers and
\* database; the order does not depend on the number or severity of findings.
C18_FixedCategoryOrder ==
    /\ \A i \in 1..Len(results.recommendations) :
          /\ results.recommendations[i].category \in Categories
          /\ results.recommendations[i].priority
                = PriorityOf(results.recommendations[i].category)
    /\ \A i, j \in 1..Len(results.recommendations) :
          i < j => CategoryRank(results.recommendations[i].category)
                     < CategoryRank(results.recommendations[j].category)

\* a moderate vulnerability is recommended before missing headers and
\* database issues
C18_Witness ==
    /\ RunOver
    /\ Len(results.vulnerabilities) = 1
    /\ results.vulnerabilities[1].severity = "moderate"
    /\ Len(results.recommendations) = 3
    /\ results.recommendations[1].category = "dependencies"
    /\ results.recommendations[2].category = "headers"
    /\ results.recommendations[3].category = "database"

----------------------------------------------------------------------------
(* Claims about the insecure-pattern rule of the environment check         *)
(* (SpecEnv).                                                              *)

LowerCased(text) == [i \in 1..Len(text) |-> Lower(text[i])]

\* the value contains the pattern, letter case ignored on both sides
ContainsIgnoringCase(value, pattern) ==
    OccursIn(LowerCased(pattern), LowerCased(value))

ContainsInsecure(value) ==
    \E i \in 1..Len(ConfiguredPatterns) :
        ContainsIgnoringCase(value, ConfiguredPatterns[i])

Occurrences(x, seq) == Cardinality({i \in 1..Len(seq) : seq[i] = x})

\* how often the length rule for required variables lists the name
ListedAsShort(name) ==
    IF InSeq(name, RequiredList)
       /\ Len(processEnv[name]) < EffectiveMinLength
    THEN Occurrences(name, RequiredList) ELSE 0

PatternRuleApplies(name) ==
    /\ ContainsInsecure(processEnv[name])
    /\ Len(processEnv[name]) < 2 * EffectiveMinLength

\* C19: for any environment variable with a non-empty value, required or
\* not, the insecure-pattern rule puts its name in the insecure list if and
\* only if the value contains a configured insecure substring and is shorter
\* than twice minLength; a value at least that long is never listed by this
\* rule.
C19_PatternRuleGatedByLength ==
    EnvChecked =>
        \A name \in DOMAIN processEnv :
            processEnv[name] # <<>> =>
                Occurrences(name, EnvRecord.insecure)
                    = ListedAsShort(name)
                      + (IF PatternRuleApplies(name) THEN 1 ELSE 0)

\* the texts that differ from text in letter case only
CaseVariants(text) ==
    {t \in [1..Len(text) -> Alphabet] : LowerCased(t) = LowerCased(text)}

\* the environments that differ from env in the letter case of values only
RecasedEnvironments(env) ==
    {e \in [DOMAIN env -> UNION {CaseVariants(env[name]) : name \in DOMAIN env}] :
        \A name \in DOMAIN env : e[name] \in CaseVariants(env[name])}

\* the pattern lists that differ from patterns in letter case only
RecasedPatterns(patterns) ==
    {ps \in [1..Len(patterns) ->
                UNION {CaseVariants(patterns[i]) : i \in 1..Len(patterns)}] :
        \A i \in 1..Len(patterns) : ps[i] \in CaseVariants(patterns[i])}

\* the configuration with the insecure patterns written as ps
WithPatterns(ps) ==
    [config EXCEPT !.checks =
        ("environmentVariables" :>
            (("patterns" :> [insecure |-> ps]) @@ EnvSettingsNow))]

InsecureListOver(cfg, env) ==
    EnvironmentVariables_run(cfg, env, NewResults(cfg))
        .results.checks["environmentVariables"].insecure

\* C20: the insecure-substring match is case-insensitive: for every
\* configured pattern and every value the match result is the same whatever
\* the letter case of the value and whatever the letter case in which the
\* pattern is written.
C20_MatchIgnoresCase ==
    EnvChecked =>
        \A env \in RecasedEnvironments(processEnv),
           ps \in RecasedPatterns(ConfiguredPatterns) :
            InsecureListOver(WithPatterns(ps), env) = EnvRecord.insecure

----------------------------------------------------------------------------
(* Claims about the records of accumulator.checks (Spec).                  *)

FiveCheckNames ==
    {"dependencyAudit", "environmentVariables", "securityHeaders",
     "apiSecurity", "databaseSecurity"}

Statuses == {"pass", "warn", "fail", "error"}

ChecksWellFormed ==
    /\ DOMAIN results.checks \subseteq FiveCheckNames
    /\ \A name \in DOMAIN results.checks :
          /\ "status" \in DOMAIN results.checks[name]
          /\ results.checks[name].status \in Statuses
          /\ results.checks[name].status = "fail" => name = "dependencyAudit"

\* the record under this name is new or differs from the one before the step
Rewritten(name) ==
    /\ name \in DOMAIN results'.checks
    /\ \/ name \notin DOMAIN results.checks
       \/ results'.checks[name] # results.checks[name]

\* a record is written in the loop iteration of the check it is named after,
\* and no record is ever removed
WrittenByOwner ==
    /\ DOMAIN results.checks \subseteq DOMAIN results'.checks
    /\ \A name \in FiveCheckNames : Rewritten(name) => pc = name

\* C21: in every reachable state of a run each key of accumulator.checks is
\* one of the five check names, its status is one of 'pass', 'warn', 'fail',
\* 'error', it was written only by the check of that name or by the
\* orchestrator's error record for that name, never by a different check, and
\* status 'fail' occurs only under dependencyAudit.
C21_RecordsClosedAndOwned ==
    []ChecksWellFormed /\ [][WrittenByOwner]_vars

C21_Witness ==
    /\ RunOver
    /\ DOMAIN results.checks = FiveCheckNames
    /\ results.checks["dependencyAudit"].status = "fail"
    /\ results.checks["environmentVariables"].status = "warn"
    /\ results.checks["securityHeaders"].status = "error"
    /\ results.checks["apiSecurity"].status = "pass"
    /\ "securityHeaders" \in thrown

----------------------------------------------------------------------------
(* Claims about what the steps of a run leave unchanged (Spec).            *)

IsPrefix(before, after) ==
    /\ Len(before) <= Len(after)
    /\ \A i \in 1..Len(before) : after[i] = before[i]

\* a step of the loop: the run of a check, or the skip of a disabled one
CheckStep == pc \in FiveCheckNames

OwnsNothingElse ==
    /\ CheckStep =>
          /\ results'.recommendations = results.recommendations
          /\ results'.timestamp = results.timestamp
          /\ results'.project = results.project
          /\ config' = config
    /\ results'.vulnerabilities # results.vulnerabilities =>
          pc = "dependencyAudit"
    /\ results'.warnings # results.warnings =>
          pc \in {"securityHeaders", "apiSecurity", "databaseSecurity"}
    /\ IsPrefix(results.vulnerabilities, results'.vulnerabilities)
    /\ IsPrefix(results.warnings, results'.warnings)
    /\ pc = "generateReport" => results' = results

\* C22: every check leaves unchanged what it does not own: only the
\* dependency check appends to vulnerabilities; no check changes
\* recommendations, timestamp, project or the configuration; vulnerabilities
\* and warnings only grow by appending; and report generation changes no
\* field of the accumulator.
C22_ChecksTouchOnlyTheirOwn == [][OwnsNothingElse]_vars

\* the database check has appended its warning behind two earlier ones, and
\* the report is written
C22_Witness ==
    /\ pc = "completed"
    /\ Len(results.warnings) = 3
    /\ Len(results.vulnerabilities) = 1
    /\ Mentions(results.warnings[3], <<"Database configuration not found: ">>)
    /\ report.content = results

----------------------------------------------------------------------------
(* Claims about the independence of the checks (Spec).                     *)

\* the configuration with every other check taken out
Solo(name) ==
    [config EXCEPT !.checks = (name :> config.checks[name])]

\* the accumulator after this check has run by itself, in the same
\* environment and filesystem, on a fresh accumulator
RunAlone(name) ==
    Caught(name, CheckRun(name, Solo(name), processEnv, cwd, files, auditTool,
                          NewResults(Solo(name))))

\* the step runs an enabled check: the record it leaves and the warnings it
\* appends are those of the check run by itself
SameAsAlone ==
    (pc \in FiveCheckNames /\ ConfiguredOn(pc)) =>
        /\ pc \in DOMAIN results'.checks
        /\ results'.checks[pc] = RunAlone(pc).checks[pc]
        /\ results'.warnings = results.warnings \o RunAlone(pc).warnings

\* C23: checks are mutually independent: for a fixed environment and
\* filesystem the record a check writes under its own name, and the warnings
\* it appends, are the same whether each of the other four checks is enabled
\* or disabled, whatever they found and whether they failed.
C23_ChecksIndependent == [][SameAsAlone]_vars

\* the headers check passes after the dependency audit has failed, the
\* environment check has raised an error, and before the API check warns
C23_Witness ==
    /\ RunOver
    /\ DOMAIN results.checks = FiveCheckNames
    /\ results.checks["dependencyAudit"].status = "fail"
    /\ results.checks["environmentVariables"].status = "error"
    /\ results.checks["securityHeaders"].status = "pass"
    /\ results.checks["apiSecurity"].status = "warn"
    /\ results.checks["securityHeaders"] = RunAlone("securityHeaders").checks["securityHeaders"]

----------------------------------------------------------------------------
(* Claims about findApiFiles (SpecApi).                                    *)

ConfiguredPatternList ==
    IF "filePatterns" \in DOMAIN ApiSettingsNow
    THEN ApiSettingsNow.filePatterns
    ELSE <<"route.ts", "route.js">>

\* what findApiFiles returns for the API directory of the run
FoundFiles == FindApiFiles(files, ApiRoot, ConfiguredPatternList)

FileName(path) == path[Len(path)]

\* the regular files of the tree whose name is not one of the pattern strings
OtherFiles ==
    {path \in DOMAIN files :
        /\ ~files[path].isDirectory
        /\ \A i \in 1..Len(ConfiguredPatternList) :
              ConfiguredPatternList[i] # FileName(path)}

\* C24: findApiFiles returns exactly the non-directory entries, at any depth
\* under the directory, whose filename is string-equal to one of the
\* configured pattern strings; a pattern is never read as a glob, so a file
\* whose name differs from every pattern is never returned and every file
\* whose name equals one is returned exactly once.
C24_ExactNameMatch ==
    ApiWalked =>
        /\ {FoundFiles[i] : i \in 1..Len(FoundFiles)}
              = (DOMAIN files \ OtherFiles)
                \ {path \in DOMAIN files : files[path].isDirectory}
        /\ \A i, j \in 1..Len(FoundFiles) :
              i # j => FoundFiles[i] # FoundFiles[j]
        /\ \A i \in 1..Len(FoundFiles) : FoundFiles[i] \notin OtherFiles
        /\ ApiRecord.totalFiles = Len(FoundFiles)

\* the pattern '*.ts' is configured, route.ts files lie on three levels and
\* none is returned
C24_Witness ==
    /\ ApiWalked
    /\ ConfiguredPatternList = <<"*.ts">>
    /\ Cardinality({path \in DOMAIN files :
                       ~files[path].isDirectory
                       /\ FileName(path) = "route.ts"}) = 3
    /\ ApiRecord.totalFiles = 0
    /\ FoundFiles = <<>>

----------------------------------------------------------------------------
(* Claims about the lists of the environment record (SpecEnv).             *)

\* C25: after the environment check runs, each variable name appears at most
\* once in the insecure list, even for a required variable that is both
\* shorter than minLength and contains an insecure pattern.
C25_InsecureNamesOnce ==
    EnvChecked =>
        \A name \in EnvNames : Occurrences(name, EnvRecord.insecure) <= 1

\* the variable is unset or set to the empty string
Unset(name) == name \notin DOMAIN processEnv \/ processEnv[name] = <<>>

\* C26: after the environment check runs, the missing and insecure lists are
\* disjoint: a required variable reported as missing (unset or set to the
\* empty string) is never also reported as insecure.
C26_MissingNeverInsecure ==
    EnvChecked =>
        /\ \A i \in 1..Len(EnvRecord.missing), j \in 1..Len(EnvRecord.insecure) :
              EnvRecord.missing[i] # EnvRecord.insecure[j]
        /\ \A name \in EnvNames :
              InSeq(name, EnvRecord.missing)
                  <=> (InSeq(name, RequiredList) /\ Unset(name))
        /\ \A name \in EnvNames : Unset(name) => ~InSeq(name, EnvRecord.insecure)

\* a required variable set to the empty string is missing while another
\* required variable is insecure
C26_Witness ==
    /\ EnvChecked
    /\ RequiredList = <<"DATABASE_URL", "API_KEY">>
    /\ "DATABASE_URL" \in DOMAIN processEnv
    /\ processEnv["DATABASE_URL"] = <<>>
    /\ EnvRecord.missing = <<"DATABASE_URL">>
    /\ InSeq("API_KEY", EnvRecord.insecure)

----------------------------------------------------------------------------
(* Claims relating recommendations to the recorded statuses (Spec).        *)

CategoryOf(name) ==
    CASE name = "dependencyAudit"      -> "dependencies"
      [] name = "environmentVariables" -> "environment"
      [] name = "apiSecurity"          -> "api"
      [] name = "securityHeaders"      -> "headers"
      [] name = "databaseSecurity"     -> "database"

\* the check has a record whose status is 'warn' or 'fail'
Flagged(name) ==
    /\ name \in DOMAIN results.checks
    /\ results.checks[name].status \in {"warn", "fail"}

\* C27: after a full run with output.includeRecommendations true, every
\* check whose recorded status is 'warn' or 'fail' has a recommendation of
\* its own category, also when the warn comes from insecure variables only,
\* from missing input validation only, or from a missing file or directory.
C27_FlaggedCheckRecommended ==
    (RunOver /\ RecommendationsIncluded) =>
        \A name \in FiveCheckNames :
            Flagged(name) => CategoryOf(name) \in RecommendedCategories


\* C28: after a full run, every recommendation belongs to a category whose
\* check has a recorded status of 'warn' or 'fail'; in particular there is
\* no 'dependencies' recommendation when checks.dependencyAudit.status is
\* 'pass' or 'error'.
C28_RecommendedCheckFlagged ==
    RunOver =>
        \A name \in FiveCheckNames :
            CategoryOf(name) \in RecommendedCategories => Flagged(name)


----------------------------------------------------------------------------
(* Claims about a failed dependency audit (SpecDep).                       *)

\* the audit has just ended with the record {status: 'error', ...}
AuditEndsInError ==
    /\ "dependencyAudit" \in DOMAIN results'.checks
    /\ results'.checks["dependencyAudit"].status = "error"
    /\ runs' = runs + 1

\* C29: when the dependency check ends with status 'error', the
\* vulnerabilities of the accumulator are unchanged from before the check
\* ran: no record of the failed invocation remains, also when the failure
\* happens while the tool's entries are being converted into records.
C29_ErrorLeavesVulnerabilities ==
    [][AuditEndsInError => results'.vulnerabilities = results.vulnerabilities]_vars

----------------------------------------------------------------------------
(* A monitor whose run() is called again after it has returned.            *)

\* the number of calls of run() that have returned
RunsCompleted == Occurrences("generateReport", invoked)

\* monitor.run() on the instance whose run() has returned: the loop starts
\* again over the same this.checks, this.config and this.results
RunAgain ==
    /\ pc = "completed"
    /\ RunsCompleted < MaxRuns
    /\ pc' = CheckOrder[1]
    /\ UNCHANGED <<environment, loading, results, invoked, thrown, report,
                   exitCode, runs>>

NextAgain ==
    \/ RunCheck
    \/ GenerateRecommendations
    \/ GenerateReport
    \/ RunAgain
    \/ Exit

SpecAgain == Init /\ [][NextAgain]_vars

----------------------------------------------------------------------------
(* Claims about a second run() (SpecAgain).                                *)

\* the second run() is about to write its report: the report file still
\* holds the accumulator as the first run() left it
SecondRunDone ==
    /\ RunsCompleted = 1
    /\ pc = "generateReport"
    /\ report.written

\* C30: a second run() on the same instance, with unchanged configuration,
\* environment, filesystem and audit-tool output, leaves checks,
\* vulnerabilities, warnings and recommendations equal to what they were
\* after the first run: nothing is duplicated and the dependency check's
\* status and counts do not change.
C30_SecondRunChangesNothing ==
    SecondRunDone =>
        /\ results.checks = report.content.checks
        /\ results.vulnerabilities = report.content.vulnerabilities
        /\ results.warnings = report.content.warnings
        /\ results.recommendations = report.content.recommendations

====
